---- MODULE Spec2Model ----
(***************************************************************************)
(* Model of src/src/deye_sensor.py: the sensor value model (leaf decoders, *)
(* composite sensors, the DailyResetSensor decorator) and the register     *)
(* range consolidation of SensorRegisterRanges.                            *)
(*                                                                         *)
(* Python floats are modelled as exact rationals [num, den] in lowest      *)
(* terms; None and a raised exception are values of their own kind.        *)
(* Time is a tick count: TicksPerDay ticks make a calendar day and         *)
(* MonthLen days a month, so datetime.day is the date modulo MonthLen.     *)
(* The read_value of the two-register decoders is not modelled.            *)
(***************************************************************************)
EXTENDS Integers, Sequences, FiniteSets, TLC

VARIABLES
    \* DailyResetSensor
    delegate,        \* the wrapped sensor (self.__delegate)
    last_value,      \* self.__last_value
    last_value_ts,   \* self.__last_value_ts
    clock,           \* what datetime.now() returns
    call             \* the last read_value call: its inputs, the state before it, its outcome

dailyVars == <<delegate, last_value, last_value_ts, clock, call>>

VARIABLES
    \* SensorRegisterRanges
    catalog,           \* the ranges argument of SensorRegisterRanges.__init__
    metric_groups,     \* its metric_groups argument (the active groups)
    max_range_length,  \* its max_range_length argument
    plan               \* the constructed object: filtered_ranges, unique_ranges, self.ranges

rangeVars == <<catalog, metric_groups, max_range_length, plan>>

VARIABLES
    \* leaf sensors: write_value
    sensor,          \* the sensor written through
    wcall            \* the last write_value call (or read-then-write): inputs and result

writeVars == <<sensor, wcall>>

VARIABLES
    \* composite sensors
    polled,          \* the register snapshot of the poll cycle
    ccall            \* the last read_value call of a composite sensor: operands and result

compVars == <<polled, ccall>>

vars == <<dailyVars, rangeVars, writeVars, compVars>>

----------------------------------------------------------------------------
(* Bounds *)

\* register addresses 1..NumRegs appear in snapshots
NumRegs == 2
\* clock values are 0..MaxTime
MaxTime == 5
\* clock ticks per calendar day
TicksPerDay == 2
\* calendar days per month (day-of-month runs 1..MonthLen)
MonthLen == 2
\* the catalog's ranges lie within the addresses 1..MaxAddr
MaxAddr == 3
\* the catalog holds at most MaxCatalog ranges
MaxCatalog == 3
\* max_range_length is drawn from 1..MaxRangeLen
MaxRangeLen == 2
\* a ComputedSumSensor has at most MaxOperands operands
MaxOperands == 2

----------------------------------------------------------------------------
(* Numbers *)

\* Python's None
NoneV == [kind |-> "None"]

\* an exception raised by the call instead of a return value
Raised(exc) == [kind |-> "raise", exc |-> exc]

Abs(n) == IF n < 0 THEN -n ELSE n

RECURSIVE GCD(_, _)
GCD(a, b) == IF b = 0 THEN a ELSE GCD(b, a % b)

\* the number n/d (d # 0), in lowest terms with a positive denominator
Num(n, d) ==
    LET g == GCD(Abs(n), Abs(d))
        s == IF d < 0 THEN -1 ELSE 1
    IN  [kind |-> "num", num |-> (s * n) \div g, den |-> Abs(d) \div g]

Int2Num(n) == Num(n, 1)

Zero == Int2Num(0)

IsNum(v) == v.kind = "num"

NumAdd(a, b) == Num(a.num * b.den + b.num * a.den, a.den * b.den)

NumSub(a, b) == Num(a.num * b.den - b.num * a.den, a.den * b.den)

NumMul(a, b) == Num(a.num * b.num, a.den * b.den)

\* a / b, b # 0
NumDiv(a, b) == Num(a.num * b.den, a.den * b.num)

\* a >= b
NumGeq(a, b) == a.num * b.den >= b.num * a.den

----------------------------------------------------------------------------
(* Register snapshots *)

SensorAddrs == 1..NumRegs

\* the 2-byte register values the transport delivers, as <<high byte, low byte>>
RegBytes == {<<0, 0>>, <<0, 5>>, <<0, 43>>, <<128, 1>>, <<255, 255>>}

\* a snapshot maps some of the addresses to their bytes
Snapshots == UNION {[A -> RegBytes] : A \in SUBSET SensorAddrs}

\* int.from_bytes(b, "big", signed=...) of a 2-byte value
IntFromBytes(b, signed) ==
    LET u == b[1] * 256 + b[2]
    IN  IF signed /\ u >= 32768 THEN u - 65536 ELSE u

----------------------------------------------------------------------------
(* Leaf decoders *)

SingleRegisterSensor(reg_address, factor, offset, signed) ==
    [cls |-> "SingleRegisterSensor", reg_address |-> reg_address,
     factor |-> factor, offset |-> offset, signed |-> signed]

\* SingleRegisterSensor.read_value
SingleReadValue(self, registers) ==
    IF self.reg_address \in DOMAIN registers
    THEN NumAdd(NumMul(Int2Num(IntFromBytes(registers[self.reg_address], self.signed)),
                       self.factor),
                self.offset)
    ELSE NoneV

----------------------------------------------------------------------------
(* DailyResetSensor *)

\* datetime.day of a timestamp: the day of the month
Day(t) == ((t \div TicksPerDay) % MonthLen) + 1

\* the calendar date of a timestamp (days since the epoch)
Date(t) == t \div TicksPerDay

\* the sensors a DailyResetSensor wraps here
Delegates ==
    {SingleRegisterSensor(1, Int2Num(1), Zero, FALSE),
     SingleRegisterSensor(1, Num(1, 10), Zero, TRUE),
     SingleRegisterSensor(2, Int2Num(1), Int2Num(-10), FALSE)}

\* faulty variant: the reset branch stores the value and the time as well
DailyResetReadValueUpdating(value, now, lv, ts) ==
    IF value # NoneV /\ Day(now) # Day(ts) /\ lv = NoneV
    THEN [ret |-> Raised("TypeError"), last_value |-> lv, last_value_ts |-> ts]
    ELSE IF value # NoneV /\ Day(now) # Day(ts) /\ NumGeq(value, lv)
    THEN [ret |-> Zero, last_value |-> value, last_value_ts |-> now]
    ELSE [ret |-> value, last_value |-> value, last_value_ts |-> now]

\* The body of DailyResetSensor.read_value after the delegate was read:
\* the return value (or the exception) and the state it leaves.
\* value >= None raises TypeError; `and` evaluates left to right.
DailyResetReadValue(value, now, lv, ts) ==
    IF value # NoneV /\ Day(now) # Day(ts) /\ lv = NoneV
    THEN [ret |-> Raised("TypeError"), last_value |-> lv, last_value_ts |-> ts]
    ELSE IF value # NoneV /\ Day(now) # Day(ts) /\ NumGeq(value, lv)
    THEN [ret |-> Zero, last_value |-> lv, last_value_ts |-> ts]
    ELSE [ret |-> value, last_value |-> value, last_value_ts |-> now]

DailyStart ==
    /\ delegate \in Delegates
    /\ clock \in 0..MaxTime
    /\ last_value = Zero
    /\ last_value_ts = clock
    /\ call = [op |-> "init"]

\* time passes between calls
Tick ==
    /\ clock < MaxTime
    /\ clock' \in (clock + 1)..MaxTime
    /\ UNCHANGED <<delegate, last_value, last_value_ts, call>>

\* DailyResetSensor.read_value(registers)
DailyRead(snapshot) ==
    LET now == clock
        value == SingleReadValue(delegate, snapshot)
        out == DailyResetReadValue(value, now, last_value, last_value_ts)
    IN  /\ last_value' = out.last_value
        /\ last_value_ts' = out.last_value_ts
        /\ call' = [op |-> "read", value |-> value, now |-> now,
                    pre_value |-> last_value, pre_ts |-> last_value_ts,
                    ret |-> out.ret]
        /\ UNCHANGED <<delegate, clock>>

\* the sensor is not used
DailyIdle ==
    /\ delegate = SingleRegisterSensor(1, Int2Num(1), Zero, FALSE)
    /\ clock = 0
    /\ last_value = Zero
    /\ last_value_ts = 0
    /\ call = [op |-> "init"]

----------------------------------------------------------------------------
(* SensorRegisterRange *)

Groups == {"g1", "g2"}

SensorRegisterRange(group, first_reg_address, last_reg_address) ==
    [group |-> group, first_reg_address |-> first_reg_address,
     last_reg_address |-> last_reg_address]

\* faulty variant: every group of the range must be active
InAnyGroupAll(self, active_groups) == self.group \subseteq active_groups

\* SensorRegisterRange.in_any_group
InAnyGroup(self, active_groups) == self.group \cap active_groups # {}

\* faulty variant: other's first address is compared twice
IsSameRangeFirstOnly(self, other) ==
    /\ self.first_reg_address = other.first_reg_address
    /\ self.last_reg_address = other.first_reg_address

\* SensorRegisterRange.is_same_range
IsSameRange(self, other) ==
    /\ self.first_reg_address = other.first_reg_address
    /\ self.last_reg_address = other.last_reg_address

\* SensorRegisterRange.length
Length(self) == self.last_reg_address - self.first_reg_address + 1

\* math.ceil(a / b) for a >= 0, b >= 1
Ceil(a, b) == (a + b - 1) \div b

Min(a, b) == IF a <= b THEN a ELSE b

\* faulty variant: the count of sub-ranges is rounded down
SplitTruncating(self, sub_range_len) ==
    LET sub_ranges_count == Length(self) \div sub_range_len
    IN  [k \in 1..sub_ranges_count |->
            LET sub_range_first_reg == self.first_reg_address + (k - 1) * sub_range_len
                sub_range_last_reg ==
                    Min(sub_range_first_reg + sub_range_len - 1, self.last_reg_address)
            IN  SensorRegisterRange(self.group, sub_range_first_reg, sub_range_last_reg)]

\* SensorRegisterRange.split: the loop index i of the code is k - 1
Split(self, sub_range_len) ==
    LET sub_ranges_count == Ceil(Length(self), sub_range_len)
    IN  [k \in 1..sub_ranges_count |->
            LET sub_range_first_reg == self.first_reg_address + (k - 1) * sub_range_len
                sub_range_last_reg ==
                    Min(sub_range_first_reg + sub_range_len - 1, self.last_reg_address)
            IN  SensorRegisterRange(self.group, sub_range_first_reg, sub_range_last_reg)]

----------------------------------------------------------------------------
(* SensorRegisterRanges *)

\* SensorRegisterRanges.__filter_reg_ranges
FilterRegRanges(reg_ranges_to_filter, groups) ==
    SelectSeq(reg_ranges_to_filter, LAMBDA r : InAnyGroup(r, groups))

\* the loop of __remove_duplicated_reg_ranges from its i-th element on
RECURSIVE RemoveDuplicatedLoop(_, _, _)
RemoveDuplicatedLoop(reg_ranges, i, result) ==
    IF i > Len(reg_ranges) THEN result
    ELSE LET reg_range == reg_ranges[i]
         IN  IF \E k \in 1..Len(result) : IsSameRange(result[k], reg_range)
             THEN RemoveDuplicatedLoop(reg_ranges, i + 1, result)
             ELSE RemoveDuplicatedLoop(reg_ranges, i + 1, Append(result, reg_range))

\* SensorRegisterRanges.__remove_duplicated_reg_ranges
RemoveDuplicatedRegRanges(reg_ranges) == RemoveDuplicatedLoop(reg_ranges, 1, <<>>)

\* the loop of __split_long_reg_ranges from its i-th element on
RECURSIVE SplitLongLoop(_, _, _, _)
SplitLongLoop(reg_ranges, max_len, i, result) ==
    IF i > Len(reg_ranges) THEN result
    ELSE LET reg_range == reg_ranges[i]
         IN  IF Length(reg_range) <= max_len
             THEN SplitLongLoop(reg_ranges, max_len, i + 1, Append(result, reg_range))
             ELSE SplitLongLoop(reg_ranges, max_len, i + 1,
                                result \o Split(reg_range, max_len))

\* SensorRegisterRanges.__split_long_reg_ranges
SplitLongRegRanges(reg_ranges, max_len) == SplitLongLoop(reg_ranges, max_len, 1, <<>>)

\* the group argument of a catalog range: one group, or a set of groups
RangeGroups == {{"g1"}, {"g1", "g2"}}

\* the ranges a catalog is made of: first <= last
CatalogRanges ==
    {r \in [group : RangeGroups, first_reg_address : 1..MaxAddr,
            last_reg_address : 1..MaxAddr] :
        r.first_reg_address <= r.last_reg_address}

Catalogs == UNION {[1..n -> CatalogRanges] : n \in 0..MaxCatalog}

RangesStart ==
    /\ catalog \in Catalogs
    /\ metric_groups \in SUBSET Groups
    /\ max_range_length \in 1..MaxRangeLen
    /\ plan = [built |-> FALSE]

\* SensorRegisterRanges.__init__
Construct ==
    /\ ~plan.built
    /\ LET filtered_ranges == FilterRegRanges(catalog, metric_groups)
           unique_ranges == RemoveDuplicatedRegRanges(filtered_ranges)
       IN  plan' = [built |-> TRUE,
                    filtered_ranges |-> filtered_ranges,
                    unique_ranges |-> unique_ranges,
                    ranges |-> SplitLongRegRanges(unique_ranges, max_range_length)]
    /\ UNCHANGED <<catalog, metric_groups, max_range_length>>

\* nothing is constructed
RangesIdle ==
    /\ catalog = <<>>
    /\ metric_groups = {}
    /\ max_range_length = 1
    /\ plan = [built |-> FALSE]

----------------------------------------------------------------------------
(* Sensor.write_value and its overrides *)

\* an address -> bytes mapping returned by write_value
Mapping(f) == [kind |-> "dict", map |-> f]

\* int(x) of a number: truncation toward zero
IntOf(x) ==
    IF x.num >= 0 THEN x.num \div x.den ELSE -((-x.num) \div x.den)

\* v.to_bytes(2, "big", signed=...): whether v fits
Fits(v, signed) ==
    IF signed THEN v >= -32768 /\ v <= 32767 ELSE v >= 0 /\ v <= 65535

\* v.to_bytes(2, "big", signed=...) of a v that fits, as <<high byte, low byte>>
ToBytes(v, signed) ==
    LET u == IF v < 0 THEN v + 65536 ELSE v
    IN  <<u \div 256, u % 256>>

\* Sensor.write_value: the default
SensorWriteValue(self, value) == Mapping(<<>>)

\* SingleRegisterSensor.write_value; to_bytes raises OverflowError when v
\* does not fit
SingleWriteValue(self, value) ==
    LET v == IntOf(NumDiv(NumSub(value, self.offset), self.factor))
    IN  IF Fits(v, self.signed)
        THEN Mapping(self.reg_address :> ToBytes(v, self.signed))
        ELSE Raised("OverflowError")

\* SignedMagnitudeSingleRegisterSensor.read_value
SignedMagnitudeSingleReadValue(self, registers) ==
    IF self.reg_address \in DOMAIN registers
    THEN LET b == registers[self.reg_address]
             reg_value == (b[1] * 256 + b[2]) % 32768
         IN  IF b[1] >= 128
             THEN NumAdd(NumMul(Int2Num(-1 * reg_value), self.factor), self.offset)
             ELSE NumAdd(NumMul(Int2Num(reg_value), self.factor), self.offset)
    ELSE NoneV

\* read_value of a one-register sensor, by its class
ReadValue(self, registers) ==
    IF self.cls = "SignedMagnitudeSingleRegisterSensor"
    THEN SignedMagnitudeSingleReadValue(self, registers)
    ELSE SingleReadValue(self, registers)

SingleClasses == {"SingleRegisterSensor", "SignedMagnitudeSingleRegisterSensor"}

DoubleClasses == {"DoubleRegisterSensor", "SignedMagnitudeDoubleRegisterSensor"}

\* faulty variant: the subclass does not inherit the override
WriteValueOwnerBaseOnly(cls) ==
    IF cls = "SingleRegisterSensor" THEN "SingleRegisterSensor" ELSE "Sensor"

\* the class that defines write_value for a sensor of class cls: only
\* SingleRegisterSensor overrides Sensor.write_value, and
\* SignedMagnitudeSingleRegisterSensor extends SingleRegisterSensor
WriteValueOwner(cls) ==
    IF cls \in SingleClasses THEN "SingleRegisterSensor" ELSE "Sensor"

\* self.write_value(value); DailyResetSensor.write_value delegates
WriteValue(self, value) ==
    LET target == IF self.cls = "DailyResetSensor" THEN self.delegate ELSE self
    IN  IF WriteValueOwner(target.cls) = "SingleRegisterSensor"
        THEN SingleWriteValue(target, value)
        ELSE SensorWriteValue(target, value)

\* a register sensor of any of the four classes
RegisterSensor(cls, reg_address, factor, offset, signed) ==
    [cls |-> cls, reg_address |-> reg_address,
     factor |-> factor, offset |-> offset, signed |-> signed]

DailyResetSensor(d) == [cls |-> "DailyResetSensor", delegate |-> d]

Factors == {Int2Num(1), Num(1, 10)}

Offsets == {Zero, Int2Num(-10)}

RegisterSensors ==
    {RegisterSensor(c, 1, f, o, sg) :
        c \in SingleClasses \cup DoubleClasses, f \in Factors, o \in Offsets,
        sg \in BOOLEAN}

Sensors == RegisterSensors \cup {DailyResetSensor(d) : d \in RegisterSensors}

\* the values handed to write_value
WriteInputs ==
    {Int2Num(5), Num(43, 10), Num(27, 10), Num(-3, 2), Int2Num(-20), Int2Num(70000)}

WriteStart ==
    /\ sensor \in Sensors
    /\ wcall = [op |-> "init"]

\* sensor.write_value(value)
Write(value) ==
    /\ wcall' = [op |-> "write", value |-> value, ret |-> WriteValue(sensor, value)]
    /\ UNCHANGED sensor

\* sensor.write_value(sensor.read_value(registers)) of a one-register
\* sensor whose register is in the snapshot
ReadThenWrite(snapshot) ==
    /\ sensor.cls \in SingleClasses
    /\ sensor.reg_address \in DOMAIN snapshot
    /\ LET value == ReadValue(sensor, snapshot)
       IN  wcall' = [op |-> "read_write", bytes |-> snapshot[sensor.reg_address],
                     value |-> value, ret |-> WriteValue(sensor, value)]
    /\ UNCHANGED sensor

WriteIdle ==
    /\ sensor = RegisterSensor("SingleRegisterSensor", 1, Int2Num(1), Zero, FALSE)
    /\ wcall = [op |-> "init"]

----------------------------------------------------------------------------
(* Composite sensors *)

\* the loop of ComputedSumSensor.read_value from the i-th value on
RECURSIVE SumLoop(_, _, _)
SumLoop(sensor_values, i, result) ==
    IF i > Len(sensor_values) THEN result
    ELSE IF sensor_values[i] = NoneV THEN NoneV
    ELSE SumLoop(sensor_values, i + 1, NumAdd(result, sensor_values[i]))

\* faulty variant: an absent operand is skipped
RECURSIVE SumLoopSkippingNone(_, _, _)
SumLoopSkippingNone(sensor_values, i, result) ==
    IF i > Len(sensor_values) THEN result
    ELSE IF sensor_values[i] = NoneV
    THEN SumLoopSkippingNone(sensor_values, i + 1, result)
    ELSE SumLoopSkippingNone(sensor_values, i + 1, NumAdd(result, sensor_values[i]))

ComputedSumReadValueSkippingNone(sensors, registers) ==
    LET sensor_values == [k \in 1..Len(sensors) |-> ReadValue(sensors[k], registers)]
    IN  SumLoopSkippingNone(sensor_values, 1, Zero)

\* ComputedSumSensor.read_value
ComputedSumReadValue(sensors, registers) ==
    LET sensor_values == [k \in 1..Len(sensors) |-> ReadValue(sensors[k], registers)]
    IN  SumLoop(sensor_values, 1, Zero)

\* ComputedPowerSensor.read_value
ComputedPowerReadValue(voltage_sensor, current_sensor, registers) ==
    LET voltage == ReadValue(voltage_sensor, registers)
        current == ReadValue(current_sensor, registers)
    IN  IF voltage # NoneV /\ current # NoneV
        THEN NumMul(voltage, current)
        ELSE NoneV

\* the sensors composites are built from
OperandSensors ==
    {RegisterSensor("SingleRegisterSensor", 1, Num(1, 10), Zero, FALSE),
     RegisterSensor("SingleRegisterSensor", 2, Int2Num(1), Zero, TRUE),
     RegisterSensor("SignedMagnitudeSingleRegisterSensor", 1, Int2Num(1), Int2Num(-10), FALSE)}

OperandLists == UNION {[1..n -> OperandSensors] : n \in 0..MaxOperands}

CompStart ==
    /\ polled \in Snapshots
    /\ ccall = [op |-> "init"]

\* ComputedSumSensor(sensors).read_value(registers)
SumRead(sensors) ==
    /\ ccall' = [op |-> "sum",
                 operands |-> [k \in 1..Len(sensors) |->
                                  ReadValue(sensors[k], polled)],
                 ret |-> ComputedSumReadValue(sensors, polled)]
    /\ UNCHANGED polled

\* ComputedPowerSensor(voltage_sensor, current_sensor).read_value(registers)
PowerRead(voltage_sensor, current_sensor) ==
    /\ ccall' = [op |-> "power",
                 operands |-> <<ReadValue(voltage_sensor, polled),
                                ReadValue(current_sensor, polled)>>,
                 ret |-> ComputedPowerReadValue(voltage_sensor, current_sensor,
                                                polled)]
    /\ UNCHANGED polled

CompIdle ==
    /\ polled = <<>>
    /\ ccall = [op |-> "init"]

----------------------------------------------------------------------------
(* Specifications *)

DailyInit == DailyStart /\ RangesIdle /\ WriteIdle /\ CompIdle

DailyNext ==
    \/ Tick /\ UNCHANGED <<rangeVars, writeVars, compVars>>
    \/ /\ \E snapshot \in Snapshots : DailyRead(snapshot)
       /\ UNCHANGED <<rangeVars, writeVars, compVars>>

\* a DailyResetSensor over a register sensor, read at arbitrary times
SpecDaily == DailyInit /\ [][DailyNext]_vars

RangesInit == RangesStart /\ DailyIdle /\ WriteIdle /\ CompIdle

RangesNext == Construct /\ UNCHANGED <<dailyVars, writeVars, compVars>>

\* SensorRegisterRanges constructed from an arbitrary catalog
SpecRanges == RangesInit /\ [][RangesNext]_vars

WriteInit == WriteStart /\ DailyIdle /\ RangesIdle /\ CompIdle

WriteNext ==
    \/ /\ \E value \in WriteInputs : Write(value)
       /\ UNCHANGED <<dailyVars, rangeVars, compVars>>
    \/ /\ \E snapshot \in Snapshots : ReadThenWrite(snapshot)
       /\ UNCHANGED <<dailyVars, rangeVars, compVars>>

\* write_value of a sensor of any class, on arbitrary values and on the
\* values it reads
SpecWrite == WriteInit /\ [][WriteNext]_vars

CompInit == CompStart /\ DailyIdle /\ RangesIdle /\ WriteIdle

CompNext ==
    \/ /\ \E sensors \in OperandLists : SumRead(sensors)
       /\ UNCHANGED <<dailyVars, rangeVars, writeVars>>
    \/ /\ \E v, c \in OperandSensors : PowerRead(v, c)
       /\ UNCHANGED <<dailyVars, rangeVars, writeVars>>

\* composite sensors read over arbitrary snapshots
SpecComp == CompInit /\ [][CompNext]_vars

----------------------------------------------------------------------------
(* Claims about SensorRegisterRanges *)

\* no two entries of the list have the same (first, last) pair
NonDuplicated(rs) ==
    \A i, j \in 1..Len(rs) :
        i # j => \/ rs[i].first_reg_address # rs[j].first_reg_address
                 \/ rs[i].last_reg_address # rs[j].last_reg_address

\* the two ranges share no address
Disjoint(a, b) ==
    \/ a.last_reg_address < b.first_reg_address
    \/ b.last_reg_address < a.first_reg_address

PairwiseDisjoint(rs) ==
    \A i, j \in 1..Len(rs) : i # j => Disjoint(rs[i], rs[j])

\* C4 as stated: the final fetch plan holds no two entries with the same
\* (first_reg_address, last_reg_address) pair.
C4_Original == plan.built => NonDuplicated(plan.ranges)

\* C4 amended: the list after filter and deduplicate holds no two entries
\* with the same pair, and the final fetch plan holds none either when the
\* kept ranges are pairwise disjoint (the split of two overlapping ranges
\* can produce the same sub-range twice).
C4_Amended ==
    plan.built =>
        /\ NonDuplicated(plan.unique_ranges)
        /\ PairwiseDisjoint(plan.unique_ranges) => NonDuplicated(plan.ranges)

\* C4 witness: a duplicate was dropped, two disjoint ranges were kept and
\* one of them was split
C4_Witness ==
    /\ plan.built
    /\ Len(plan.unique_ranges) < Len(plan.filtered_ranges)
    /\ Len(plan.unique_ranges) = 2
    /\ PairwiseDisjoint(plan.unique_ranges)
    /\ Len(plan.ranges) > Len(plan.unique_ranges)

\* what the split step makes of one range
SplitStep(r, max_len) == SplitLongRegRanges(<<r>>, max_len)

\* the sub-ranges are in ascending order, each of a length in 1..max_len,
\* and cover r's addresses with no gap and no overlap, each with r's groups
CoversExactly(parts, r, max_len) ==
    /\ Len(parts) >= 1
    /\ parts[1].first_reg_address = r.first_reg_address
    /\ parts[Len(parts)].last_reg_address = r.last_reg_address
    /\ \A k \in 1..Len(parts) :
        /\ parts[k].group = r.group
        /\ Length(parts[k]) >= 1
        /\ Length(parts[k]) <= max_len
    /\ \A k \in 1..(Len(parts) - 1) :
        parts[k + 1].first_reg_address = parts[k].last_reg_address + 1

RECURSIVE Flatten(_)
Flatten(seqs) == IF seqs = <<>> THEN <<>> ELSE Head(seqs) \o Flatten(Tail(seqs))

\* C5: the split step replaces a range longer than max_range_length by
\* sub-ranges in ascending order, each of length 1..max_range_length, that
\* cover the range exactly and carry its groups; a range that is not longer
\* passes through unchanged; the plan is these pieces in order, so each of
\* its entries has length <= max_range_length.
C5_Split ==
    plan.built =>
        /\ \A i \in 1..Len(plan.unique_ranges) :
            LET r == plan.unique_ranges[i]
                parts == SplitStep(r, max_range_length)
            IN  /\ Length(r) <= max_range_length => parts = <<r>>
                /\ Length(r) > max_range_length =>
                    /\ Len(parts) >= 2
                    /\ CoversExactly(parts, r, max_range_length)
        /\ plan.ranges =
            Flatten([i \in 1..Len(plan.unique_ranges) |->
                        SplitStep(plan.unique_ranges[i], max_range_length)])
        /\ \A k \in 1..Len(plan.ranges) : Length(plan.ranges[k]) <= max_range_length

\* C5 witness: a range was split into pieces the last of which is shorter than the
\* others, and another range passed through unchanged
C5_Witness ==
    /\ plan.built
    /\ \E i \in 1..Len(plan.unique_ranges) :
        LET r == plan.unique_ranges[i]
        IN  /\ Length(r) > max_range_length
            /\ Length(r) % max_range_length # 0
    /\ \E i \in 1..Len(plan.unique_ranges) :
        Length(plan.unique_ranges[i]) <= max_range_length

\* the catalog indices the filter and deduplicate steps keep: the range is
\* in an active group and no earlier range in an active group has its pair
KeptIndices ==
    {i \in 1..Len(catalog) :
        /\ catalog[i].group \cap metric_groups # {}
        /\ \A j \in 1..(i - 1) :
            catalog[j].group \cap metric_groups # {}
                => ~(/\ catalog[j].first_reg_address = catalog[i].first_reg_address
                     /\ catalog[j].last_reg_address = catalog[i].last_reg_address)}

\* the k-th smallest element of a set of numbers
KthOf(S, k) == CHOOSE i \in S : Cardinality({j \in S : j <= i}) = k

\* C6: the list after filter and deduplicate is the in-order subsequence of
\* the catalog made of the ranges in an active group, keeping of each
\* (first, last) pair the first such occurrence, with its own group set.
C6_FilterDedup ==
    plan.built =>
        /\ Len(plan.unique_ranges) = Cardinality(KeptIndices)
        /\ \A k \in 1..Len(plan.unique_ranges) :
            plan.unique_ranges[k] = catalog[KthOf(KeptIndices, k)]

\* C6 witness: a later range with the pair of a kept one and another group set was
\* dropped, and a range after it was kept
C6_Witness ==
    /\ plan.built
    /\ Len(catalog) = 3
    /\ catalog[1].group \cap metric_groups # {}
    /\ catalog[2].group \cap metric_groups # {}
    /\ catalog[1].first_reg_address = catalog[2].first_reg_address
    /\ catalog[1].last_reg_address = catalog[2].last_reg_address
    /\ catalog[1].group # catalog[2].group
    /\ plan.unique_ranges = <<catalog[1], catalog[3]>>

----------------------------------------------------------------------------
(* Claims about write_value *)

\* the largest integer <= x
Floor(x) ==
    IF x.num >= 0 THEN x.num \div x.den ELSE -((-x.num + x.den - 1) \div x.den)

\* round(x): to the nearest integer, a tie to the even one
Round(x) ==
    LET f == Floor(x)
        twice == NumSub(NumMul(Int2Num(2), x), Int2Num(2 * f))
    IN  IF twice.num < twice.den THEN f
        ELSE IF twice.num > twice.den THEN f + 1
        ELSE IF f % 2 = 0 THEN f ELSE f + 1

\* the sensor behind a DailyResetSensor, or the sensor itself
Target == IF sensor.cls = "DailyResetSensor" THEN sensor.delegate ELSE sensor

\* (value - offset) / factor of the last call on the written sensor
Quotient == NumDiv(NumSub(wcall.value, Target.offset), Target.factor)

\* C8: for a SingleRegisterSensor write_value(read_value(registers)) is the
\* one-entry mapping of reg_address to the register's bytes, and
\* write_value(v) is the one-entry mapping of reg_address to
\* round((v - offset) / factor) as 2 big-endian bytes (where that fits).
C8_Original ==
    sensor.cls = "SingleRegisterSensor" =>
        /\ wcall.op = "read_write" =>
            wcall.ret = Mapping(sensor.reg_address :> wcall.bytes)
        /\ (wcall.op = "write" /\ Fits(Round(Quotient), sensor.signed)) =>
            wcall.ret = Mapping(sensor.reg_address :>
                                    ToBytes(Round(Quotient), sensor.signed))

\* C9 as stated: write_value of a DoubleRegisterSensor, a
\* SignedMagnitudeDoubleRegisterSensor and a
\* SignedMagnitudeSingleRegisterSensor returns the empty mapping, also
\* through a DailyResetSensor.
C9_Original ==
    (wcall.op = "write"
        /\ Target.cls \in DoubleClasses \cup {"SignedMagnitudeSingleRegisterSensor"})
        => wcall.ret = Mapping(<<>>)

\* C9 amended: write_value of a DoubleRegisterSensor and of a
\* SignedMagnitudeDoubleRegisterSensor returns the empty mapping, also
\* through a DailyResetSensor; a SignedMagnitudeSingleRegisterSensor
\* inherits SingleRegisterSensor.write_value and never returns the empty
\* mapping: it returns a one-entry mapping for reg_address when the encoded
\* integer fits in 2 bytes and raises OverflowError when it does not.
C9_Amended ==
    wcall.op = "write" =>
        /\ Target.cls \in DoubleClasses => wcall.ret = Mapping(<<>>)
        /\ Target.cls = "SignedMagnitudeSingleRegisterSensor" =>
            IF Fits(IntOf(Quotient), Target.signed)
            THEN /\ wcall.ret.kind = "dict"
                 /\ DOMAIN wcall.ret.map = {Target.reg_address}
            ELSE wcall.ret = Raised("OverflowError")

\* C9 witness: a DailyResetSensor over a SignedMagnitudeSingleRegisterSensor returned a
\* one-entry mapping
C9_Witness ==
    /\ wcall.op = "write"
    /\ sensor.cls = "DailyResetSensor"
    /\ Target.cls = "SignedMagnitudeSingleRegisterSensor"
    /\ wcall.ret.kind = "dict"
    /\ DOMAIN wcall.ret.map = {Target.reg_address}

----------------------------------------------------------------------------
(* Claims about the composite sensors *)

\* the sum of a list of numbers, from its last element
RECURSIVE SumOf(_)
SumOf(values) ==
    IF values = <<>> THEN Zero
    ELSE NumAdd(SumOf(SubSeq(values, 1, Len(values) - 1)), values[Len(values)])

\* C7: ComputedSumSensor.read_value is absent exactly when some operand is
\* absent and is the sum of the operands otherwise (0 for no operands);
\* ComputedPowerSensor.read_value is absent exactly when the voltage or the
\* current is absent and is their product otherwise.
C7_Propagation ==
    /\ ccall.op = "sum" =>
        /\ ccall.ret = NoneV <=>
            \E k \in 1..Len(ccall.operands) : ccall.operands[k] = NoneV
        /\ (\A k \in 1..Len(ccall.operands) : ccall.operands[k] # NoneV) =>
            ccall.ret = SumOf(ccall.operands)
    /\ ccall.op = "power" =>
        /\ ccall.ret = NoneV <=>
            (ccall.operands[1] = NoneV \/ ccall.operands[2] = NoneV)
        /\ (ccall.operands[1] # NoneV /\ ccall.operands[2] # NoneV) =>
            ccall.ret = Num(ccall.operands[1].num * ccall.operands[2].num,
                            ccall.operands[1].den * ccall.operands[2].den)

\* C7 witness: a sum whose first operand is present, and not 0, and whose last operand
\* is absent came out absent
C7_Witness ==
    /\ ccall.op = "sum"
    /\ Len(ccall.operands) = 2
    /\ ccall.operands[1] # NoneV
    /\ ccall.operands[1] # Zero
    /\ ccall.operands[2] = NoneV
    /\ ccall.ret = NoneV

----------------------------------------------------------------------------
(* Claims about DailyResetSensor *)

Called == call.op = "read"

\* the guard of the reset branch, from the call's inputs
ResetCase ==
    /\ call.value # NoneV
    /\ Day(call.now) # Day(call.pre_ts)
    /\ IsNum(call.pre_value)
    /\ NumGeq(call.value, call.pre_value)

C2_Original ==
    (Called /\ call.value = NoneV)
        => /\ call.ret = NoneV
           /\ last_value = call.pre_value
           /\ last_value_ts = call.pre_ts

\* C3: read_value returns 0 when the value is present, the calendar date of
\* now differs from that of last_value_ts and value >= last_value, and the
\* delegate's value unchanged in every other case.
C3_Original ==
    Called
        => call.ret = IF /\ call.value # NoneV
                         /\ Date(call.now) # Date(call.pre_ts)
                         /\ IsNum(call.pre_value)
                         /\ NumGeq(call.value, call.pre_value)
                      THEN Zero
                      ELSE call.value

\* C10: no read_value call fails: each call returns a number or absent, a
\* call that follows an absent read included.  (The other half of the
\* claim, that last_value is a number in every reachable state, fails in
\* the state an absent read leaves: that is the violation of C2.)
C10_Original == Called => call.ret.kind \in {"num", "None"}

====
